---- MODULE Spec2Model ----
(***************************************************************************)
(* Model of strconv.py: the registry of named, ordered converters          *)
(* (Strconv), the built-in converters, the per-type counters (TypeInfo,    *)
(* Types) and the inference passes (infer_series, infer_matrix).           *)
(*                                                                         *)
(* A token is a Python str, modelled as a sequence of one-character        *)
(* strings.  The tokens of the model are built over the alphabet           *)
(* 0-9 + - % . x and the letters of "yes" and "F", so the parsers below     *)
(* cover every token they are given.                                       *)
(***************************************************************************)
EXTENDS Integers, Sequences, FiniteSets, TLC

VARIABLES converters, order, last, ret, calls, cin, cout, env, info, tlast, icall, iret

vars == <<converters, order, last, ret, calls, cin, cout, env, info, tlast, icall, iret>>

regVars == <<converters, order, last, ret, calls>>
convVars == <<cin, cout, env>>
typVars == <<info, tlast>>
infVars == <<icall, iret>>

(***************************************************************************)
(* Bounds of the model.                                                    *)
(***************************************************************************)
MaxPriority == 1
MaxSize == 1
MaxLimit == 3
MaxSeries == 3
MaxRows == 2
MaxWidth == 2
MaxIndex == 0
MaxCount == 1

(***************************************************************************)
(* Python values.  None for an optional integer argument is NoneArg;       *)
(* a present argument x is Some(x).  Every converted value is a record of  *)
(* one shape: k the Python type, s the characters of a str, a and b the    *)
(* numbers of the value.                                                   *)
(***************************************************************************)
NoneArg == [some |-> FALSE, v |-> 0]
Some(x) == [some |-> TRUE, v |-> x]

NoType == "<None>"

StrVal(s) == [k |-> "str", s |-> s, a |-> 0, b |-> 0]
IntVal(n) == [k |-> "int", s |-> <<>>, a |-> n, b |-> 0]
FloatVal(m, e) == [k |-> "float", s |-> <<>>, a |-> m, b |-> e]
IntIntervalVal(lo, hi) == [k |-> "IntInterval", s |-> <<>>, a |-> lo, b |-> hi]
DateIntervalVal(y0, y1) == [k |-> "DateInterval", s |-> <<>>, a |-> y0, b |-> y1]
EmptyStringVal == [k |-> "EmptyString", s |-> <<>>, a |-> 0, b |-> 0]
BoolVal(t) == [k |-> "bool", s |-> <<>>, a |-> IF t THEN 1 ELSE 0, b |-> 0]
\* the datetime and the date that dateutil's parser reads in the str s
DatetimeVal(s) == [k |-> "datetime", s |-> s, a |-> 0, b |-> 0]
DateVal(s) == [k |-> "date", s |-> s, a |-> 0, b |-> 0]
NoVal == [k |-> "none", s |-> <<>>, a |-> 0, b |-> 0]

\* the str "EmptyString" that convert_with_type returns for a zero-length token
EmptyStringName == <<"E", "m", "p", "t", "y", "S", "t", "r", "i", "n", "g">>

(***************************************************************************)
(* The outcome of calling a converter: it returns a value, raises          *)
(* ValueError (a parse failure), or raises another exception.              *)
(***************************************************************************)
Ok(v) == [res |-> "ok", val |-> v]
ValueError == [res |-> "ValueError", val |-> NoVal]
Raise(e) == [res |-> e, val |-> NoVal]

(***************************************************************************)
(* str operations.                                                         *)
(***************************************************************************)
Digits == <<"0", "1", "2", "3", "4", "5", "6", "7", "8", "9">>

IsDigit(c) == \E i \in 1..10 : Digits[i] = c

DigitVal(c) == (CHOOSE i \in 1..10 : Digits[i] = c) - 1

AllDigits(s) == \A i \in 1..Len(s) : IsDigit(s[i])

RECURSIVE DigitsVal(_)
DigitsVal(s) ==
    IF Len(s) = 0 THEN 0
    ELSE 10 * DigitsVal(SubSeq(s, 1, Len(s) - 1)) + DigitVal(s[Len(s)])

\* s.split("-"): the pieces of s between the separators, empty pieces kept
RECURSIVE Split(_, _)
Split(s, sep) ==
    IF \A i \in 1..Len(s) : s[i] # sep THEN <<s>>
    ELSE LET p == CHOOSE i \in 1..Len(s) :
                      s[i] = sep /\ \A j \in 1..(i - 1) : s[j] # sep
         IN  <<SubSeq(s, 1, p - 1)>> \o Split(SubSeq(s, p + 1, Len(s)), sep)

\* int(s): an optional sign and one or more decimal digits
ParseInt(s) ==
    LET signed == Len(s) > 0 /\ s[1] \in {"+", "-"}
        body == IF signed THEN SubSeq(s, 2, Len(s)) ELSE s
    IN  IF Len(body) > 0 /\ AllDigits(body)
        THEN Ok(IntVal(IF signed /\ s[1] = "-" THEN 0 - DigitsVal(body)
                       ELSE DigitsVal(body)))
        ELSE ValueError

\* a float m / 10^e with the trailing zeros of the fraction removed
RECURSIVE Normalize(_, _)
Normalize(m, e) ==
    IF e > 0 /\ m % 10 = 0 THEN Normalize(m \div 10, e - 1) ELSE FloatVal(m, e)

\* float(s): an optional sign, digits with at most one ".", at least one digit
ParseFloat(s) ==
    LET signed == Len(s) > 0 /\ s[1] \in {"+", "-"}
        body == IF signed THEN SubSeq(s, 2, Len(s)) ELSE s
        parts == Split(body, ".")
        ip == parts[1]
        fp == IF Len(parts) = 2 THEN parts[2] ELSE <<>>
        mag == DigitsVal(ip \o fp)
    IN  IF /\ Len(parts) \in {1, 2}
           /\ AllDigits(ip) /\ AllDigits(fp)
           /\ Len(ip) + Len(fp) > 0
        THEN Ok(Normalize(IF signed /\ s[1] = "-" THEN 0 - mag ELSE mag, Len(fp)))
        ELSE ValueError

\* datetime.strptime(s, "%Y").date(): exactly four digits, year 1..9999
StrptimeYear(s) ==
    IF Len(s) = 4 /\ AllDigits(s) /\ DigitsVal(s) >= 1
    THEN Ok(IntVal(DigitsVal(s)))
    ELSE ValueError

\* IntInterval([lo, hi]) and DateInterval([lo, hi]) reject lo > hi
IntervalOk(lo, hi) == lo <= hi

(***************************************************************************)
(* Built-in converters.                                                    *)
(***************************************************************************)
convert_emptystring(s) ==
    IF Len(s) = 0 THEN Ok(EmptyStringVal) ELSE ValueError

convert_int(s) == ParseInt(s)

convert_float(s) == ParseFloat(s)

\* re.I: the lower-case form of the letters of true_re and false_re
UpperLetters == <<"T", "R", "U", "E", "Y", "S", "F", "A", "L", "N", "O">>
LowerLetters == <<"t", "r", "u", "e", "y", "s", "f", "a", "l", "n", "o">>

LowerChar(c) ==
    IF \E i \in 1..Len(UpperLetters) : UpperLetters[i] = c
    THEN LowerLetters[CHOOSE i \in 1..Len(UpperLetters) : UpperLetters[i] = c]
    ELSE c

Lower(s) == [i \in 1..Len(s) |-> LowerChar(s[i])]

\* ^(t(rue)?|yes)$ and ^(f(alse)?|no)$, case-insensitive
true_re == {<<"t">>, <<"t", "r", "u", "e">>, <<"y", "e", "s">>}
false_re == {<<"f">>, <<"f", "a", "l", "s", "e">>, <<"n", "o">>}

convert_bool(s) ==
    IF Lower(s) \in true_re THEN Ok(BoolVal(TRUE))
    ELSE IF Lower(s) \in false_re THEN Ok(BoolVal(FALSE))
    ELSE ValueError

\* the part of a non-empty s left without a leading "+" and a trailing "%"
PercentBody(s) ==
    IF s[1] = "+"
    THEN IF s[Len(s)] = "%"
         THEN SubSeq(s, 2, Len(s) - 1)
         ELSE SubSeq(s, 2, Len(s))
    ELSE IF s[Len(s)] = "%"
         THEN SubSeq(s, 1, Len(s) - 1)
         ELSE s

\* a leading "-" refused
convert_percent_unsigned(s) ==
    IF Len(s) = 0 \/ s[1] = "-" THEN ValueError ELSE ParseFloat(PercentBody(s))

convert_percent(s) ==
    IF Len(s) = 0 THEN ValueError ELSE ParseFloat(PercentBody(s))

\* IntInterval([s1, s2]) of the two parsed parts; a failure of int() or of the
\* constructor is a ValueError
IntRangeOf(s1, s2) ==
    IF s1.res # "ok" \/ s2.res # "ok" THEN ValueError
    ELSE IF IntervalOk(s1.val.a, s2.val.a)
         THEN Ok(IntIntervalVal(s1.val.a, s2.val.a))
         ELSE ValueError

IntRangeOfParts(ints) ==
    IF Len(ints) # 2 THEN ValueError
    ELSE IntRangeOf(ParseInt(ints[1]), ParseInt(ints[2]))

convert_intrange(s) ==
    IF Len(s) = 0 THEN ValueError ELSE IntRangeOfParts(Split(s, "-"))

\* delta = i1 - s0.year % 100
YearDelta(year, i1) == i1 - (year % 100)

\* the interval of start s0 = strptime(ints[0]), end s1 = strptime(ints[1])
\* and i1 = int(ints[1])
YearRangeOf(s0, s1, i1) ==
    IF s0.res # "ok" THEN ValueError
    ELSE IF s1.res = "ok" /\ IntervalOk(s0.val.a, s1.val.a)
    THEN Ok(DateIntervalVal(s0.val.a, s1.val.a))
    \* the bare except: int() may raise ValueError in it
    ELSE IF i1.res # "ok" THEN ValueError
    ELSE IF ~(0 < i1.val.a /\ i1.val.a < 100) THEN ValueError
    ELSE IF IntervalOk(s0.val.a, s0.val.a + YearDelta(s0.val.a, i1.val.a))
    THEN Ok(DateIntervalVal(s0.val.a, s0.val.a + YearDelta(s0.val.a, i1.val.a)))
    ELSE Raise("RangeBoundsException")

YearRangeOfParts(ints) ==
    IF Len(ints) # 2 THEN ValueError
    ELSE YearRangeOf(StrptimeYear(ints[1]), StrptimeYear(ints[2]), ParseInt(ints[2]))

convert_yearrange(s) ==
    IF Len(s) = 0 THEN ValueError ELSE YearRangeOfParts(Split(s, "-"))

\* every format of TIME_FORMATS has a ":", which no token of the model has:
\* strptime fails on each of them
convert_time(s) == ValueError

\* dateutil's parser is not part of the source: env.datetime holds the tokens
\* on which the dateutil branch of convert_datetime returns a datetime, and
\* env.date the tokens on which duparse(s).date() returns a date; on any other
\* token the parser raises ValueError.  The formats tried after the dateutil
\* branch all hold a TIME_FORMATS format, so they fail like convert_time.
convert_datetime(s) ==
    IF s \in env.datetime THEN Ok(DatetimeVal(s)) ELSE convert_time(s)

convert_date(s) ==
    IF s \in env.date THEN Ok(DateVal(s)) ELSE ValueError

\* the functions called directly on a token
Funcs == {"convert_emptystring", "convert_int", "convert_float", "convert_bool",
          "convert_percent", "convert_time", "convert_intrange", "convert_yearrange"}

Call(f, s) ==
    CASE f = "convert_emptystring" -> convert_emptystring(s)
      [] f = "convert_int" -> convert_int(s)
      [] f = "convert_float" -> convert_float(s)
      [] f = "convert_bool" -> convert_bool(s)
      [] f = "convert_percent" -> convert_percent(s)
      [] f = "convert_time" -> convert_time(s)
      [] f = "convert_datetime" -> convert_datetime(s)
      [] f = "convert_date" -> convert_date(s)
      [] f = "convert_intrange" -> convert_intrange(s)
      [] f = "convert_yearrange" -> convert_yearrange(s)

(***************************************************************************)
(* Tokens.                                                                 *)
(***************************************************************************)
TokEmpty == <<>>
Tok123 == <<"1", "2", "3">>
Tok1p5 == <<"1", ".", "5">>
TokX == <<"x">>
Tok1995_05 == <<"1", "9", "9", "5", "-", "0", "5">>
Tok1995_97 == <<"1", "9", "9", "5", "-", "9", "7">>
Tok1995_94 == <<"1", "9", "9", "5", "-", "9", "4">>
TokPlus5Pct == <<"+", "5", "%">>
Tok5Pct == <<"5", "%">>
TokMinus5Pct == <<"-", "5", "%">>
TokYes == <<"y", "e", "s">>
TokF == <<"F">>

Tokens == {TokEmpty, Tok123, Tok1p5, TokX, Tok1995_05, Tok1995_97, Tok1995_94,
           TokPlus5Pct, Tok5Pct, TokMinus5Pct, TokYes, TokF}

\* the tokens given to the registry's conversions
RegTokens == {TokEmpty, Tok123, Tok1p5}

\* what dateutil's parser does on the tokens that reach it: the tokens it
\* reads a date in, and those among them convert_datetime returns a datetime for
NoDateutil == [date |-> {}, datetime |-> {}]

(***************************************************************************)
(* Python list operations used on _order.                                  *)
(***************************************************************************)
InList(l, x) == \E i \in 1..Len(l) : l[i] = x

\* l.index(x), 0-based, of the first occurrence
IndexOf(l, x) == (CHOOSE i \in 1..Len(l) : l[i] = x /\ \A j \in 1..(i - 1) : l[j] # x) - 1

\* l.remove(x): removes the first occurrence
ListRemove(l, x) ==
    LET p == IndexOf(l, x) + 1
    IN  SubSeq(l, 1, p - 1) \o SubSeq(l, p + 1, Len(l))

\* l.insert(i, x): a negative i counts from the end, and i is clamped to 0..len
ListInsert(l, i, x) ==
    LET j == IF i < 0 THEN i + Len(l) ELSE i
        p == IF j < 0 THEN 0 ELSE IF j > Len(l) THEN Len(l) ELSE j
    IN  SubSeq(l, 1, p) \o <<x>> \o SubSeq(l, p + 1, Len(l))

(***************************************************************************)
(* Strconv: the registry.  converters is the dict name -> function, order  *)
(* is _order.  last records the latest call and its arguments (for         *)
(* register_converter also was, the index the name had in _order before    *)
(* the call, -1 when it had none), ret                                     *)
(* what the call returned or raised, calls the names whose converter the   *)
(* call invoked, in order.                                                 *)
(***************************************************************************)
Names == {"EmptyString", "int", "float"}

NoneName == "<None>"

RegFuncs == {"convert_emptystring", "convert_int", "convert_float"}

NotCallable == "<not callable>"

Priorities == {NoneArg} \cup {Some(p) : p \in (0 - MaxPriority)..MaxPriority}

NoCall == [op |-> "init", name |-> NoneName, func |-> "", prio |-> NoneArg,
           was |-> 0 - 1, s |-> <<>>, include_type |-> FALSE]

Returned(v, t, tup) == [raised |-> "", val |-> v, typ |-> t, tuple |-> tup]
Raised(e) == [raised |-> e, val |-> NoVal, typ |-> NoType, tuple |-> FALSE]

\* __init__(converters): every pair is stored, a later pair replacing an earlier
\* one of the same name, and every name is appended
InitConverters(lst) ==
    [n \in {lst[i][1] : i \in 1..Len(lst)} |->
        lst[CHOOSE i \in 1..Len(lst) :
               lst[i][1] = n /\ \A j \in (i + 1)..Len(lst) : lst[j][1] # n][2]]

InitOrder(lst) == [i \in 1..Len(lst) |-> lst[i][1]]

\* the lists of (name, function) pairs a registry of the model is built from
Pairs == Names \X RegFuncs

InitLists ==
    {<<>>}
    \cup {<<p>> : p \in Pairs}
    \cup {<<p, q>> : p \in Pairs, q \in Pairs}
    \cup {<< <<"EmptyString", "convert_emptystring">>, <<"int", "convert_int">>,
             <<"float", "convert_float">> >>}

RegInit ==
    /\ \E lst \in InitLists :
         /\ converters = InitConverters(lst)
         /\ order = InitOrder(lst)
    /\ last = NoCall
    /\ ret = Returned(NoVal, NoType, FALSE)
    /\ calls = <<>>

\* the test made without "priority is not None": None read as index 0
PriorityInRangeNoneAsZero(priority, l) == priority.v < Len(l)

\* priority < len(_order), negative priorities included
PriorityInRange(priority, l) == priority.some /\ priority.v < Len(l)

RegisterConverter(name, func, priority) ==
    /\ last' = [NoCall EXCEPT !.op = "register_converter", !.name = name,
                              !.func = func, !.prio = priority,
                              !.was = IF InList(order, name) THEN IndexOf(order, name)
                                      ELSE 0 - 1]
    /\ calls' = <<>>
    /\ IF name = NoneName \/ func = NotCallable
       THEN /\ ret' = Raised("ValueError")
            /\ UNCHANGED <<converters, order>>
       ELSE LET o1 == IF InList(order, name) THEN ListRemove(order, name) ELSE order
            IN  /\ converters' = [n \in DOMAIN converters \cup {name} |->
                                     IF n = name THEN func ELSE converters[n]]
                /\ order' = IF PriorityInRange(priority, o1)
                            THEN ListInsert(o1, priority.v, name)
                            ELSE Append(o1, name)
                /\ ret' = Returned(NoVal, NoType, FALSE)
    /\ UNCHANGED <<convVars, typVars, infVars>>

UnregisterConverter(name) ==
    /\ last' = [NoCall EXCEPT !.op = "unregister_converter", !.name = name]
    /\ calls' = <<>>
    /\ order' = IF InList(order, name) THEN ListRemove(order, name) ELSE order
    /\ converters' = [n \in DOMAIN converters \ {name} |-> converters[n]]
    /\ ret' = Returned(NoVal, NoType, FALSE)
    /\ UNCHANGED <<convVars, typVars, infVars>>

\* a function object as a returned value: s holds its name
FuncVal(f) == [k |-> "function", s |-> <<f>>, a |-> 0, b |-> 0]

GetConverter(name) ==
    /\ last' = [NoCall EXCEPT !.op = "get_converter", !.name = name]
    /\ calls' = <<>>
    /\ ret' = IF name \notin DOMAIN converters THEN Raised("KeyError")
              ELSE Returned(FuncVal(converters[name]), NoType, FALSE)
    /\ UNCHANGED <<converters, order, convVars, typVars, infVars>>

\* the loop of convert from position k of _order (1-based); the result
\* carries the names whose converter was invoked
RECURSIVE ConvertFrom(_, _, _, _, _)

\* one trial: o is the outcome of func(s) for the name at position k
ConvertTrial(convs, ord, s, include_type, k, o) ==
    IF o.res = "ok"
    THEN [r |-> Returned(o.val, IF include_type THEN ord[k] ELSE NoType, include_type),
          calls |-> SubSeq(ord, 1, k)]
    ELSE IF o.res = "ValueError"
    THEN ConvertFrom(convs, ord, s, include_type, k + 1)
    ELSE [r |-> Raised(o.res), calls |-> SubSeq(ord, 1, k)]

ConvertFrom(convs, ord, s, include_type, k) ==
    IF k > Len(ord)
    THEN [r |-> Returned(StrVal(s), NoType, include_type), calls |-> ord]
    ELSE IF ord[k] \notin DOMAIN convs
    THEN [r |-> Raised("KeyError"), calls |-> SubSeq(ord, 1, k - 1)]
    ELSE ConvertTrial(convs, ord, s, include_type, k, Call(convs[ord[k]], s))

\* the trial order walked from its end
ConvertResultReversed(convs, ord, s, include_type) ==
    ConvertFrom(convs, [k \in 1..Len(ord) |-> ord[Len(ord) + 1 - k]], s, include_type, 1)

\* convert(s, include_type) on a str s
ConvertResult(convs, ord, s, include_type) == ConvertFrom(convs, ord, s, include_type, 1)

\* a failed hint falling back to any other registered converter that accepts s
ConvertWithTypeFallback(convs, s, include_type, ct) ==
    IF Len(s) = 0
    THEN [r |-> Returned(StrVal(EmptyStringName), "EmptyString", TRUE), calls |-> <<>>]
    ELSE IF ct = NoneName
    THEN [r |-> Returned(StrVal(s), NoType, include_type), calls |-> <<>>]
    ELSE IF ct \notin DOMAIN convs
    THEN [r |-> Raised("KeyError"), calls |-> <<>>]
    ELSE LET o == Call(convs[ct], s)
             others == {t \in DOMAIN convs : Call(convs[t], s).res = "ok"}
         IN  IF o.res = "ok"
             THEN [r |-> Returned(o.val, IF include_type THEN ct ELSE NoType,
                                  include_type),
                   calls |-> <<ct>>]
             ELSE IF others # {}
             THEN LET t == CHOOSE t \in others : TRUE
                  IN  [r |-> Returned(Call(convs[t], s).val,
                                      IF include_type THEN t ELSE NoType, include_type),
                       calls |-> <<ct, t>>]
             ELSE [r |-> Returned(StrVal(s), NoType, include_type), calls |-> <<ct>>]

\* the try block of convert_with_type: o is the outcome of func(s)
TypedTrial(s, include_type, ct, o) ==
    IF o.res = "ok"
    THEN [r |-> Returned(o.val, IF include_type THEN ct ELSE NoType, include_type),
          calls |-> <<ct>>]
    ELSE IF o.res = "ValueError"
    THEN [r |-> Returned(StrVal(s), NoType, include_type), calls |-> <<ct>>]
    ELSE [r |-> Raised(o.res), calls |-> <<ct>>]

\* convert_with_type(s, include_type, ct) on a str s
ConvertWithTypeResult(convs, s, include_type, ct) ==
    IF Len(s) = 0
    THEN [r |-> Returned(StrVal(EmptyStringName), "EmptyString", TRUE), calls |-> <<>>]
    ELSE IF ct = NoneName
    THEN [r |-> Returned(StrVal(s), NoType, include_type), calls |-> <<>>]
    ELSE IF ct \notin DOMAIN convs
    THEN [r |-> Raised("KeyError"), calls |-> <<>>]
    ELSE TypedTrial(s, include_type, ct, Call(convs[ct], s))

\* the call with its result stored
Converted(c, op) ==
    /\ last' = op
    /\ ret' = c.r
    /\ calls' = c.calls
    /\ UNCHANGED <<converters, order, convVars, typVars, infVars>>

Convert(s, include_type) ==
    Converted(ConvertResult(converters, order, s, include_type),
              [NoCall EXCEPT !.op = "convert", !.s = s, !.include_type = include_type])

ConvertWithType(s, include_type, ct) ==
    Converted(ConvertWithTypeResult(converters, s, include_type, ct),
              [NoCall EXCEPT !.op = "convert_with_type", !.s = s, !.name = ct,
                             !.include_type = include_type])

(***************************************************************************)
(* TypeInfo: the counter and the sample of one type.  A sample entry is    *)
(* the pair (i, value).                                                    *)
(***************************************************************************)
TypeInfoNew(name, size, total) ==
    [name |-> name, count |-> 0, sample |-> <<>>, size |-> size, total |-> total,
     sample_set |-> {}]

TypeInfo_incr(ti, n) == [ti EXCEPT !.count = @ + n]

\* the capacity test written <= : one entry more than size
TypeInfo_add_overfull(ti, i, value) ==
    IF (~ti.size.some \/ Len(ti.sample) <= ti.size.v) /\ value \notin ti.sample_set
    THEN [ti EXCEPT !.sample_set = @ \cup {value},
                    !.sample = Append(@, [i |-> i, value |-> value])]
    ELSE ti

TypeInfo_add(ti, i, value) ==
    IF (~ti.size.some \/ Len(ti.sample) < ti.size.v) /\ value \notin ti.sample_set
    THEN [ti EXCEPT !.sample_set = @ \cup {value},
                    !.sample = Append(@, [i |-> i, value |-> value])]
    ELSE ti

\* freq() as the fraction <<numerator, denominator>>; 0. is <<0, 1>>
TypeInfo_freq(ti) ==
    IF ti.total.some /\ ti.total.v # 0 THEN <<ti.count, ti.total.v>> ELSE <<0, 1>>

(***************************************************************************)
(* Types: the dict of TypeInfo of one series, in insertion order.          *)
(***************************************************************************)
TypesNew(size) == [size |-> size, total |-> NoneArg, types |-> <<>>]

HasType(T, t) == \E k \in 1..Len(T.types) : T.types[k].name = t

TypeAt(T, t) == CHOOSE k \in 1..Len(T.types) : T.types[k].name = t

\* t = 'unknown' when t is None
TypeKey(t) == IF t = NoType THEN "unknown" ELSE t

\* self.types[t] = TypeInfo(t, self.size, self.total) when t is not a key
WithType(T, t) ==
    IF HasType(T, t) THEN T
    ELSE [T EXCEPT !.types = Append(@, TypeInfoNew(t, T.size, T.total))]

Types_incr(T, t, n) ==
    LET T1 == WithType(T, TypeKey(t))
        k == TypeAt(T1, TypeKey(t))
    IN  [T1 EXCEPT !.types[k] = TypeInfo_incr(@, n)]

Types_add(T, t, i, value) ==
    LET T1 == WithType(T, TypeKey(t))
        k == TypeAt(T1, TypeKey(t))
    IN  [T1 EXCEPT !.types[k] = TypeInfo_add(@, i, value)]

Types_set_total(T, total) ==
    [T EXCEPT !.total = Some(total),
              !.types = [k \in 1..Len(T.types) |-> [T.types[k] EXCEPT !.total = Some(total)]]]

(***************************************************************************)
(* The operations of a Types object called one by one.                     *)
(***************************************************************************)
Sizes == {NoneArg} \cup {Some(c) : c \in 0..MaxSize}

TypeArgs == {NoType, "int", "unknown"}

SampleValues == {Tok123, TokX}

\* the sample of type t, empty when t is not a key yet
SampleOf(T, t) == IF HasType(T, TypeKey(t)) THEN T.types[TypeAt(T, TypeKey(t))].sample ELSE <<>>

\* tlast records the latest call, with pre the sample of its type before it
NoOp == [op |-> "init", t |-> NoType, i |-> 0, value |-> <<>>, pre |-> <<>>]

TypesInit ==
    /\ \E size \in Sizes : info = TypesNew(size)
    /\ tlast = NoOp

TotalCount(T) ==
    LET RECURSIVE Sum(_)
        Sum(k) == IF k = 0 THEN 0 ELSE T.types[k].count + Sum(k - 1)
    IN  Sum(Len(T.types))

TypesIncr(t) ==
    /\ TotalCount(info) < MaxCount
    /\ info' = Types_incr(info, t, 1)
    /\ tlast' = [NoOp EXCEPT !.op = "incr", !.t = t, !.pre = SampleOf(info, t)]
    /\ UNCHANGED <<regVars, convVars, infVars>>

TypesAdd(t, i, value) ==
    /\ info' = Types_add(info, t, i, value)
    /\ tlast' = [NoOp EXCEPT !.op = "add", !.t = t, !.i = i, !.value = value,
                              !.pre = SampleOf(info, t)]
    /\ UNCHANGED <<regVars, convVars, infVars>>

TypesSetTotal(total) ==
    /\ info' = Types_set_total(info, total)
    /\ tlast' = [NoOp EXCEPT !.op = "set_total", !.i = total]
    /\ UNCHANGED <<regVars, convVars, infVars>>


(***************************************************************************)
(* Inference.  A call's arguments are icall; iret is what it returned or   *)
(* raised, with seen the positions (i, j) whose token was classified.      *)
(***************************************************************************)
\* infer(s): the type name of convert(s, include_type=True)
Infer(convs, ord, s) == ConvertResult(convs, ord, s, TRUE).r

\* the limit tested against None only: 0 is a limit
TruthyNotNone(n) == n.some

\* "if n and ...": n is neither None nor 0
Truthy(n) == n.some /\ n.v # 0

\* the loop of infer_series from index k (0-based) of the tokens
RECURSIVE SeriesLoop(_, _, _, _, _, _, _)

\* the sample entry given the 1-based position of the token
SeriesStepOneBased(convs, ord, tokens, n, k, T, seen, c) ==
    IF c.raised # ""
    THEN [exc |-> c.raised, i |-> k, info |-> T, seen |-> seen]
    ELSE SeriesLoop(convs, ord, tokens, n, k + 1,
                    Types_add(Types_incr(T, c.typ, 1), c.typ, k + 1, tokens[k + 1]),
                    seen \cup {<<k, 0>>})

\* the body of the loop: c is what infer(value) returned or raised
SeriesStep(convs, ord, tokens, n, k, T, seen, c) ==
    IF c.raised # ""
    THEN [exc |-> c.raised, i |-> k, info |-> T, seen |-> seen]
    ELSE SeriesLoop(convs, ord, tokens, n, k + 1,
                    Types_add(Types_incr(T, c.typ, 1), c.typ, k, tokens[k + 1]),
                    seen \cup {<<k, 0>>})

SeriesLoop(convs, ord, tokens, n, k, T, seen) ==
    IF k >= Len(tokens)
    THEN [exc |-> "", i |-> k - 1, info |-> T, seen |-> seen]
    ELSE IF Truthy(n) /\ k >= n.v
    THEN [exc |-> "", i |-> k, info |-> T, seen |-> seen]
    ELSE SeriesStep(convs, ord, tokens, n, k, T, seen, Infer(convs, ord, tokens[k + 1]))

\* what infer_series does after the loop l: i += 1, the empty result or set_total
SeriesReturn(l) ==
    IF l.exc # ""
    THEN [kind |-> "raised", exc |-> l.exc, infos |-> <<>>, seen |-> l.seen]
    ELSE IF l.i + 1 = 0
    THEN [kind |-> "None", exc |-> "", infos |-> <<>>, seen |-> l.seen]
    ELSE [kind |-> "Types", exc |-> "", infos |-> <<Types_set_total(l.info, l.i + 1)>>,
          seen |-> l.seen]

\* the limit test written i > n: one token more than the limit
InferSeriesResultLate(convs, ord, tokens, n, size) ==
    SeriesReturn(SeriesLoop(convs, ord, tokens, IF Truthy(n) THEN Some(n.v + 1) ELSE n, 0,
                            TypesNew(size), {}))

InferSeriesResult(convs, ord, tokens, n, size) ==
    SeriesReturn(SeriesLoop(convs, ord, tokens, n, 0, TypesNew(size), {}))

\* the inner loop of infer_matrix over the cells of row i from column j
RECURSIVE CellLoop(_, _, _, _, _, _, _, _)

\* the sample entry given the column j in place of the row i
CellStepByColumn(convs, ord, row, size, i, j, infos, seen, c) ==
    IF j >= Len(infos)
    THEN [exc |-> "IndexError", infos |-> infos, seen |-> seen]
    ELSE IF c.raised # ""
    THEN [exc |-> c.raised, infos |-> infos, seen |-> seen]
    ELSE CellLoop(convs, ord, row, size, i, j + 1,
                  [infos EXCEPT ![j + 1] =
                      Types_add(Types_incr(@, c.typ, 1), c.typ, j, row[j + 1])],
                  seen \cup {<<i, j>>})

\* the body of the inner loop once infos holds the row-0 distribution: c is
\* what infer(value) returned or raised
CellStep(convs, ord, row, size, i, j, infos, seen, c) ==
    IF j >= Len(infos)
    THEN [exc |-> "IndexError", infos |-> infos, seen |-> seen]
    ELSE IF c.raised # ""
    THEN [exc |-> c.raised, infos |-> infos, seen |-> seen]
    ELSE CellLoop(convs, ord, row, size, i, j + 1,
                  [infos EXCEPT ![j + 1] =
                      Types_add(Types_incr(@, c.typ, 1), c.typ, i, row[j + 1])],
                  seen \cup {<<i, j>>})

CellLoop(convs, ord, row, size, i, j, infos, seen) ==
    IF j >= Len(row)
    THEN [exc |-> "", infos |-> infos, seen |-> seen]
    ELSE CellStep(convs, ord, row, size, i, j,
                  IF i = 0 THEN Append(infos, TypesNew(size)) ELSE infos,
                  seen, Infer(convs, ord, row[j + 1]))

\* the outer loop of infer_matrix from row k (0-based)
RECURSIVE MatrixLoop(_, _, _, _, _, _, _, _)

\* the outer loop after the cells of row k: r is what the inner loop left
MatrixStep(convs, ord, matrix, n, size, k, r) ==
    IF r.exc # ""
    THEN [exc |-> r.exc, i |-> k, infos |-> r.infos, seen |-> r.seen]
    ELSE MatrixLoop(convs, ord, matrix, n, size, k + 1, r.infos, r.seen)

MatrixLoop(convs, ord, matrix, n, size, k, infos, seen) ==
    IF k >= Len(matrix)
    THEN [exc |-> "", i |-> k - 1, infos |-> infos, seen |-> seen]
    ELSE IF Truthy(n) /\ k >= n.v
    THEN [exc |-> "", i |-> k, infos |-> infos, seen |-> seen]
    ELSE MatrixStep(convs, ord, matrix, n, size, k,
                    CellLoop(convs, ord, matrix[k + 1], size, k, 0, infos, seen))

\* what infer_matrix does after the loop l: i += 1 and set_total on every column
MatrixReturn(l) ==
    IF l.exc # ""
    THEN [kind |-> "raised", exc |-> l.exc, infos |-> <<>>, seen |-> l.seen]
    ELSE [kind |-> "list", exc |-> "",
          infos |-> [j \in 1..Len(l.infos) |-> Types_set_total(l.infos[j], l.i + 1)],
          seen |-> l.seen]

InferMatrixResult(convs, ord, matrix, n, size) ==
    MatrixReturn(MatrixLoop(convs, ord, matrix, n, size, 0, <<>>, {}))

\* the inputs of the inference calls
InferTokens == {Tok123, TokX, TokEmpty, Tok1995_05}

SeriesInputs == UNION {[1..k -> InferTokens] : k \in 0..MaxSeries}

MatrixTokens == {Tok123, TokX}

MatrixRows == UNION {[1..w -> MatrixTokens] : w \in 0..MaxWidth}

MatrixInputs == UNION {[1..r -> MatrixRows] : r \in 0..MaxRows}

Limits == {NoneArg} \cup {Some(n) : n \in 0..MaxLimit}

MatrixSizes == {NoneArg, Some(1)}

\* the registries the inference calls run on
BuiltinList ==
    << <<"EmptyString", "convert_emptystring">>, <<"int", "convert_int">>,
       <<"float", "convert_float">>, <<"percent", "convert_percent">>,
       <<"IntInterval", "convert_intrange">>, <<"DateInterval", "convert_yearrange">> >>

InferRegistries == {BuiltinList, << <<"int", "convert_int">> >>}

Pending == [kind |-> "pending", exc |-> "", infos |-> <<>>, seen |-> {}]

InferInit ==
    /\ \E lst \in InferRegistries :
         /\ converters = InitConverters(lst)
         /\ order = InitOrder(lst)
    /\ \/ \E tokens \in SeriesInputs, n \in Limits, size \in Sizes :
            icall = [op |-> "infer_series", tokens |-> tokens, matrix |-> <<>>,
                     n |-> n, size |-> size]
       \/ \E matrix \in MatrixInputs, n \in Limits, size \in MatrixSizes :
            icall = [op |-> "infer_matrix", tokens |-> <<>>, matrix |-> matrix,
                     n |-> n, size |-> size]
    /\ iret = Pending

InferSeries ==
    /\ icall.op = "infer_series"
    /\ iret = Pending
    /\ iret' = InferSeriesResult(converters, order, icall.tokens, icall.n, icall.size)
    /\ UNCHANGED <<icall, regVars, convVars, typVars>>

InferMatrix ==
    /\ icall.op = "infer_matrix"
    /\ iret = Pending
    /\ iret' = InferMatrixResult(converters, order, icall.matrix, icall.n, icall.size)
    /\ UNCHANGED <<icall, regVars, convVars, typVars>>

(***************************************************************************)
(* A built-in converter called directly on a token.                        *)
(***************************************************************************)
YearParts == {<<"1", "9", "9", "5">>, <<"2", "0", "0", "0">>, <<"0", "0", "9", "9">>,
              <<"1", "9", "9">>, <<"x">>, <<>>}

EndParts == {<<"0", "5">>, <<"9", "7">>, <<"9", "5">>, <<"9", "4">>, <<"0">>,
             <<"0", "0">>, <<"5">>, <<"1", "0", "0">>, <<"2", "0", "0", "5">>,
             <<"1", "9", "9", "4">>, <<"0", "0", "5", "0">>, <<"x">>, <<>>,
             <<"+", "5">>, <<"5", "%">>}

ConvTokens ==
    Tokens
    \cup {y \o <<"-">> \o e : y \in YearParts, e \in EndParts}
    \cup {y \o <<"-">> \o e \o <<"-">> \o e : y \in YearParts, e \in {<<"0", "5">>, <<>>}}
    \cup YearParts \cup EndParts

NotCalled == [res |-> "pending", val |-> NoVal]

ConvInit ==
    /\ \E f \in Funcs, s \in ConvTokens : cin = [f |-> f, s |-> s]
    /\ cout = NotCalled
    /\ env = NoDateutil

Apply ==
    /\ cout = NotCalled
    /\ cout' = Call(cin.f, cin.s)
    /\ UNCHANGED <<cin, env, regVars, typVars, infVars>>

(***************************************************************************)
(* Specifications.  Each one runs one part of the program and holds the    *)
(* variables of the other parts at their idle values.                      *)
(***************************************************************************)
RegIdle ==
    /\ converters = InitConverters(<<>>) /\ order = <<>>
    /\ last = NoCall /\ ret = Returned(NoVal, NoType, FALSE) /\ calls = <<>>

ConvIdle ==
    /\ cin = [f |-> "convert_int", s |-> <<>>] /\ cout = NotCalled
    /\ env = NoDateutil

TypesIdle == info = TypesNew(NoneArg) /\ tlast = NoOp

InferIdle ==
    /\ icall = [op |-> "idle", tokens |-> <<>>, matrix |-> <<>>, n |-> NoneArg,
                size |-> NoneArg]
    /\ iret = Pending

\* the registry and the conversion of single tokens
Init == RegInit /\ ConvIdle /\ TypesIdle /\ InferIdle

Next ==
    \/ \E name \in Names, func \in RegFuncs, priority \in Priorities :
          RegisterConverter(name, func, priority)
    \/ \E func \in RegFuncs \cup {NotCallable} : RegisterConverter(NoneName, func, NoneArg)
    \/ \E name \in Names : RegisterConverter(name, NotCallable, NoneArg)
    \/ \E name \in Names : UnregisterConverter(name)
    \/ \E s \in RegTokens, include_type \in BOOLEAN : Convert(s, include_type)
    \/ \E s \in RegTokens, include_type \in BOOLEAN, ct \in Names \cup {NoneName} :
          ConvertWithType(s, include_type, ct)

Spec == Init /\ [][Next]_vars

\* a built-in converter applied to a token
InitConv == ConvInit /\ RegIdle /\ TypesIdle /\ InferIdle

NextConv == Apply

SpecConv == InitConv /\ [][NextConv]_vars

\* the operations of one Types object
InitTypes == TypesInit /\ RegIdle /\ ConvIdle /\ InferIdle

NextTypes ==
    \/ \E t \in TypeArgs : TypesIncr(t)
    \/ \E t \in TypeArgs, i \in 0..MaxIndex, value \in SampleValues : TypesAdd(t, i, value)
    \/ \E total \in 0..MaxCount : TypesSetTotal(total)

SpecTypes == InitTypes /\ [][NextTypes]_vars

\* the registry given the names and functions a caller may get wrong
EmptyName == ""

ConfigNames == {"int", "float", EmptyName, NoneName}

ConfigFuncs == {"convert_int", "convert_float", NotCallable}

InitConfig == Init

NextConfig ==
    \/ \E name \in ConfigNames, func \in ConfigFuncs : RegisterConverter(name, func, NoneArg)
    \/ \E name \in ConfigNames \ {NoneName} : UnregisterConverter(name)
    \/ \E name \in ConfigNames : GetConverter(name)

SpecConfig == InitConfig /\ [][NextConfig]_vars

\* default_strconv: the registry of the built-in converters
DefaultList ==
    << <<"EmptyString", "convert_emptystring">>, <<"int", "convert_int">>,
       <<"float", "convert_float">>, <<"bool", "convert_bool">>,
       <<"percent", "convert_percent">>, <<"time", "convert_time">>,
       <<"datetime", "convert_datetime">>, <<"date", "convert_date">>,
       <<"IntInterval", "convert_intrange">>, <<"DateInterval", "convert_yearrange">> >>

DefaultTokens == {TokEmpty, Tok123, Tok1p5, TokYes, TokF, TokPlus5Pct, Tok5Pct,
                  TokMinus5Pct, TokX, Tok1995_94, Tok1995_97}

\* the tokens that no converter before datetime accepts
DateutilTokens ==
    {s \in DefaultTokens :
        /\ convert_emptystring(s).res = "ValueError"
        /\ convert_int(s).res = "ValueError"
        /\ convert_float(s).res = "ValueError"
        /\ convert_bool(s).res = "ValueError"
        /\ convert_percent(s).res = "ValueError"
        /\ convert_time(s).res = "ValueError"}

\* convert on the default registry, whatever dateutil reads in a token
InitDefault ==
    /\ converters = InitConverters(DefaultList)
    /\ order = InitOrder(DefaultList)
    /\ last = NoCall /\ ret = Returned(NoVal, NoType, FALSE) /\ calls = <<>>
    /\ cin = [f |-> "convert_int", s |-> <<>>] /\ cout = NotCalled
    /\ \E d \in SUBSET DateutilTokens :
          \E dt \in SUBSET d : env = [date |-> d, datetime |-> dt]
    /\ TypesIdle /\ InferIdle

NextDefault == \E s \in DefaultTokens, include_type \in BOOLEAN : Convert(s, include_type)

SpecDefault == InitDefault /\ [][NextDefault]_vars

\* infer_series and infer_matrix
InitInfer ==
    /\ InferInit /\ ConvIdle /\ TypesIdle
    /\ last = NoCall /\ ret = Returned(NoVal, NoType, FALSE) /\ calls = <<>>

NextInfer == InferSeries \/ InferMatrix

SpecInfer == InitInfer /\ [][NextInfer]_vars


(***************************************************************************)
(* Properties.                                                             *)
(***************************************************************************)
\* the outcome of the converter at position k of _order on the latest token
OutcomeAt(k) ==
    IF order[k] \notin DOMAIN converters THEN Raise("KeyError")
    ELSE Call(converters[order[k]], last.s)

FailsBefore(k) == \A j \in 1..(k - 1) : OutcomeAt(j).res = "ValueError"

\* C1: convert(s, include_type=True) on a non-empty token returns the output
\* and the name of the first converter of the trial order that succeeds,
\* having invoked no converter after it; when every converter signals a parse
\* failure it returns the token itself with no type.
C1_OrderedResolution ==
    (last.op = "convert" /\ last.include_type /\ Len(last.s) > 0) =>
        /\ FailsBefore(Len(order) + 1) =>
              ret = Returned(StrVal(last.s), NoType, TRUE) /\ calls = order
        /\ \A k \in 1..Len(order) :
              (FailsBefore(k) /\ OutcomeAt(k).res = "ok") =>
                  /\ ret = Returned(OutcomeAt(k).val, order[k], TRUE)
                  /\ calls = SubSeq(order, 1, k)

\* two registered converters accept the token with different outputs and the
\* earlier one's result came back
C1_Witness ==
    /\ last.op = "convert" /\ last.include_type /\ Len(last.s) > 0
    /\ \E i, j \in 1..Len(order) :
          /\ i < j /\ order[i] # order[j]
          /\ FailsBefore(i)
          /\ OutcomeAt(i).res = "ok" /\ OutcomeAt(j).res = "ok"
          /\ OutcomeAt(i).val # OutcomeAt(j).val
          /\ ret.typ = order[i] /\ ret.val = OutcomeAt(i).val

\* C2: a zero-length token resolves to the empty-value sentinel tagged
\* EmptyString, with no converter invoked, on the ordered path and on the
\* typed path, whatever the registry holds.
C2_EmptyTokenShortCircuits ==
    (/\ Len(last.s) = 0
     /\ \/ last.op = "convert" /\ last.include_type
        \/ last.op = "convert_with_type") =>
        /\ ret.raised = ""
        /\ ret.val = EmptyStringVal
        /\ ret.typ = "EmptyString"
        /\ calls = <<>>

\* C3: when infer_series returns a distribution, the counts of its types sum
\* to its total, the total is the number of tokens classified, and each
\* type's freq() is count / N.
C3_FrequencyInvariant ==
    (icall.op = "infer_series" /\ iret.kind = "Types") =>
        LET T == iret.infos[1]
            N == Cardinality(iret.seen)
        IN  /\ T.total = Some(N)
            /\ TotalCount(T) = N
            /\ \A k \in 1..Len(T.types) :
                  TypeInfo_freq(T.types[k])[1] * N
                      = T.types[k].count * TypeInfo_freq(T.types[k])[2]

\* C4: convert_with_type on a non-empty token with a registered hint invokes
\* that converter only; its output comes back tagged with the hint, and on a
\* parse failure the token comes back untyped.  With no hint the token comes
\* back untyped and no converter is invoked.
C4_TypedResolution ==
    (last.op = "convert_with_type" /\ Len(last.s) > 0) =>
        IF last.name = NoneName
        THEN ret = Returned(StrVal(last.s), NoType, last.include_type) /\ calls = <<>>
        ELSE last.name \in DOMAIN converters =>
                LET o == Call(converters[last.name], last.s)
                IN  /\ calls = <<last.name>>
                    /\ o.res = "ok" =>
                          ret = Returned(o.val,
                                         IF last.include_type THEN last.name ELSE NoType,
                                         last.include_type)
                    /\ o.res = "ValueError" =>
                          ret = Returned(StrVal(last.s), NoType, last.include_type)

\* the hinted converter failed while another registered one accepts the token
C4_Witness ==
    /\ last.op = "convert_with_type" /\ Len(last.s) > 0 /\ last.include_type
    /\ last.name \in DOMAIN converters
    /\ Call(converters[last.name], last.s).res = "ValueError"
    /\ \E k \in 1..Len(order) : OutcomeAt(k).res = "ok"
    /\ ret = Returned(StrVal(last.s), NoType, TRUE)

\* C5: _order holds no name twice and its names are the keys of converters.
C5_RegistryInvariant ==
    /\ \A i, j \in 1..Len(order) : i # j => order[i] # order[j]
    /\ {order[i] : i \in 1..Len(order)} = DOMAIN converters

\* C6: register_converter puts the name at index priority when
\* 0 <= priority < L, L the number of names left after the name's prior
\* occurrence is removed, and last in every other case; the other names keep
\* their relative order.
C6_RegisterPosition ==
    [][(last'.op = "register_converter" /\ ret'.raised = "") =>
          LET name == last'.name
              p == last'.prio
              o1 == IF InList(order, name) THEN ListRemove(order, name) ELSE order
              L == Len(o1)
              pos == IF p.some /\ 0 <= p.v /\ p.v < L THEN p.v ELSE L
          IN  order' = SubSeq(o1, 1, pos) \o <<name>> \o SubSeq(o1, pos + 1, L)]_vars

\* the values of a sample, in order
SampleValuesOf(sample) == [a \in 1..Len(sample) |-> sample[a].value]

\* C7: a sample never exceeds its capacity nor holds a value twice; an add of
\* a value already sampled, or at capacity, leaves the sample as it was, any
\* other add appends (i, value), and incr leaves the sample alone.
C7_SampleCapacity ==
    /\ \A k \in 1..Len(info.types) :
          LET ti == info.types[k]
          IN  /\ ti.size.some => Len(ti.sample) <= ti.size.v
              /\ \A a, b \in 1..Len(ti.sample) :
                    a # b => ti.sample[a].value # ti.sample[b].value
    /\ tlast.op = "add" =>
          LET full == info.size.some /\ Len(tlast.pre) >= info.size.v
              dup == InList(SampleValuesOf(tlast.pre), tlast.value)
          IN  SampleOf(info, tlast.t) =
                 IF full \/ dup THEN tlast.pre
                 ELSE Append(tlast.pre, [i |-> tlast.i, value |-> tlast.value])
    /\ tlast.op = "incr" => SampleOf(info, tlast.t) = tlast.pre

\* an add of a new value arrived at a sample at its capacity and left it alone
C7_Witness ==
    /\ tlast.op = "add"
    /\ info.size.some /\ info.size.v >= 1 /\ Len(tlast.pre) = info.size.v
    /\ ~InList(SampleValuesOf(tlast.pre), tlast.value)
    /\ SampleOf(info, tlast.t) = tlast.pre

Min(a, b) == IF a < b THEN a ELSE b

\* C8: with a limit n >= 1 infer_series classifies no token at index >= n,
\* and a pass that returns has classified exactly the tokens at the indices
\* below min(n, length): they are what the counters count and the samples hold.
C8_LimitBoundsSeries ==
    (/\ icall.op = "infer_series" /\ iret.kind # "pending"
     /\ icall.n.some /\ icall.n.v >= 1) =>
        /\ \A e \in iret.seen : e[1] < icall.n.v
        /\ iret.kind # "raised" =>
              iret.seen = {<<i, 0>> : i \in 0..(Min(icall.n.v, Len(icall.tokens)) - 1)}
        /\ iret.kind = "Types" =>
              /\ TotalCount(iret.infos[1]) = Min(icall.n.v, Len(icall.tokens))
              /\ \A k \in 1..Len(iret.infos[1].types) :
                    \A a \in 1..Len(iret.infos[1].types[k].sample) :
                       iret.infos[1].types[k].sample[a].i < icall.n.v

\* the limit cut a longer series short
C8_Witness ==
    /\ icall.op = "infer_series" /\ iret.kind = "Types"
    /\ icall.n.some /\ icall.n.v >= 1 /\ icall.n.v < Len(icall.tokens)
    /\ Cardinality(iret.seen) = icall.n.v

\* C9: when a later row is wider than the first row, infer_matrix completes
\* without error, returns one distribution per cell of the first row and
\* classifies no cell beyond the first row's width.
C9_WiderRowsIgnored ==
    (/\ icall.op = "infer_matrix" /\ iret.kind # "pending"
     /\ \E r \in 2..Len(icall.matrix) : Len(icall.matrix[r]) > Len(icall.matrix[1])) =>
        /\ iret.kind = "list"
        /\ Len(iret.infos) = Len(icall.matrix[1])
        /\ \A e \in iret.seen : e[2] < Len(icall.matrix[1])

\* C10: convert_yearrange on "1995-05" is the interval 1995..2005, and on
\* every "YYYY-YY" token with a 2-digit end 01..99 it is an interval that
\* starts at YYYY and does not end before it starts.
C10_YearRangeTwoDigit ==
    (cin.f = "convert_yearrange" /\ cout # NotCalled) =>
        /\ cin.s = Tok1995_05 => cout = Ok(DateIntervalVal(1995, 2005))
        /\ \A y \in YearParts, e \in EndParts :
              (/\ cin.s = y \o <<"-">> \o e
               /\ StrptimeYear(y).res = "ok"
               /\ Len(e) = 2 /\ AllDigits(e) /\ DigitsVal(e) > 0) =>
                  /\ cout.res = "ok"
                  /\ cout.val.a = DigitsVal(y)
                  /\ cout.val.b >= cout.val.a

C12_MatrixTotals ==
    (icall.op = "infer_matrix" /\ iret.kind = "list" /\ icall.n # Some(0)) =>
        LET rows == IF icall.n.some THEN Min(icall.n.v, Len(icall.matrix))
                    ELSE Len(icall.matrix)
        IN  /\ \A e \in iret.seen : e[1] < rows
            /\ \A j \in 1..Len(iret.infos) : iret.infos[j].total = Some(rows)

\* C13: register_converter for a name already in the trial order, without a
\* priority, replaces the name's function, removes the name from its position
\* and appends it: the name ends last, the other names keep their relative
\* order and their functions.
C13_ReRegisterMovesLast ==
    [][(/\ last'.op = "register_converter" /\ ret'.raised = ""
        /\ ~last'.prio.some /\ InList(order, last'.name)) =>
          /\ order' = Append(ListRemove(order, last'.name), last'.name)
          /\ DOMAIN converters' = DOMAIN converters \cup {last'.name}
          /\ converters'[last'.name] = last'.func
          /\ \A n \in DOMAIN converters \ {last'.name} : converters'[n] = converters[n]]_vars

\* a name that was not last was registered again without a priority and is
\* last now, no longer at the index it had
C13_Witness ==
    /\ last.op = "register_converter" /\ ret.raised = "" /\ ~last.prio.some
    /\ last.was >= 0 /\ last.was < Len(order) - 1
    /\ order[Len(order)] = last.name /\ order[last.was + 1] # last.name
    /\ converters[last.name] = last.func

\* C13 as stated: a name registered again without a priority keeps the index
\* it had in the trial order, with its function replaced.
C13_ReRegisterKeepsIndex ==
    (/\ last.op = "register_converter" /\ ret.raised = ""
     /\ ~last.prio.some /\ last.was >= 0) =>
        /\ IndexOf(order, last.name) = last.was
        /\ converters[last.name] = last.func

\* C14: register_converter with the name None, with the empty name or with a
\* function that is not callable raises and leaves converters and _order as
\* they were; get_converter with a name that is not registered raises
\* KeyError.
C14_ConfigErrorsFailFast ==
    [][/\ (/\ last'.op = "register_converter"
           /\ \/ last'.name \in {NoneName, EmptyName}
              \/ last'.func = NotCallable) =>
             /\ ret'.raised # ""
             /\ converters' = converters
             /\ order' = order
       /\ (last'.op = "get_converter" /\ last'.name \notin DOMAIN converters) =>
             ret'.raised = "KeyError"]_vars

\* C15: infer_series over no token returns None, no distribution; over one
\* token or more it returns a distribution whose total is the number of
\* tokens classified.
C15_SeriesResult ==
    (icall.op = "infer_series" /\ iret.kind \notin {"pending", "raised"}) =>
        IF Len(icall.tokens) = 0
        THEN iret.kind = "None" /\ iret.infos = <<>>
        ELSE /\ iret.kind = "Types"
             /\ iret.infos[1].total = Some(Cardinality(iret.seen))

\* C16: convert on the default registry never raises: it returns a converted
\* value with the name of its converter, or the token itself with no type; an
\* interval token whose end is before its start, such as "1995-94", is a
\* parse failure of the interval converters.
C16_ParseFailuresNotSurfaced ==
    (last.op = "convert") =>
        /\ ret.raised = ""
        /\ \/ ret.val = StrVal(last.s) /\ ret.typ = NoType
           \/ /\ last.include_type => ret.typ \in DOMAIN converters
              /\ \E k \in 1..Len(order) : OutcomeAt(k) = Ok(ret.val)
        /\ \A k \in 1..Len(order) :
              order[k] \in {"IntInterval", "DateInterval"} =>
                  OutcomeAt(k).res \in {"ok", "ValueError"}

Rectangular(matrix) == \A r \in 1..Len(matrix) : Len(matrix[r]) = Len(matrix[1])

\* the tokens of column j (1-based) of a rectangular matrix
Column(matrix, j) == [r \in 1..Len(matrix) |-> matrix[r][j]]

\* C17: when infer_matrix returns on a non-empty rectangular matrix, it
\* returns one distribution per column, and the distribution of column j is
\* the one infer_series returns on the tokens of column j with the same limit
\* and sample capacity: same types in the same order, same counts, samples
\* and total.
C17_ColumnIndependence ==
    (/\ icall.op = "infer_matrix" /\ iret.kind = "list"
     /\ Len(icall.matrix) >= 1 /\ Rectangular(icall.matrix)) =>
        /\ Len(iret.infos) = Len(icall.matrix[1])
        /\ \A j \in 1..Len(icall.matrix[1]) :
              InferSeriesResult(converters, order, Column(icall.matrix, j),
                                icall.n, icall.size)
                  = [kind |-> "Types", exc |-> "", infos |-> <<iret.infos[j]>>,
                     seen |-> {<<e[1], 0>> : e \in {f \in iret.seen : f[2] = j - 1}}]

\* two rows of two columns whose distributions differ, with a sample entry
\* taken in the second row
C17_Witness ==
    /\ icall.op = "infer_matrix" /\ iret.kind = "list"
    /\ Len(icall.matrix) = 2 /\ Rectangular(icall.matrix) /\ Len(icall.matrix[1]) = 2
    /\ iret.infos[1] # iret.infos[2]
    /\ \E k \in 1..Len(iret.infos[1].types) :
          \E a \in 1..Len(iret.infos[1].types[k].sample) :
             iret.infos[1].types[k].sample[a].i = 1

\* C18: while the total is not set every type's freq() is 0 whatever its
\* count, and freq() is 0 on a total of 0; once set_total has been called,
\* no incr or add changes the count or the sample of a type or adds a type.
C18_DistributionLifecycle ==
    [][/\ \A k \in 1..Len(info'.types) :
             (~info'.types[k].total.some \/ info'.types[k].total.v = 0) =>
                 TypeInfo_freq(info'.types[k]) = <<0, 1>>
       /\ info.total.some =>
             /\ Len(info'.types) = Len(info.types)
             /\ \A k \in 1..Len(info.types) :
                   /\ info'.types[k].count = info.types[k].count
                   /\ info'.types[k].sample = info.types[k].sample]_vars

\* C19: in a distribution infer_series returns, a sample entry (i, v) of type
\* T has v the token at position i, convert gives v the type T (no type for
\* 'unknown'), and v occurs at no position before i; the indices of a sample
\* increase strictly and a sample is no longer than the type's count.
C19_SampleProvenance ==
    (icall.op = "infer_series" /\ iret.kind = "Types") =>
        \A k \in 1..Len(iret.infos[1].types) :
           LET ti == iret.infos[1].types[k]
           IN  /\ Len(ti.sample) <= ti.count
               /\ \A a, b \in 1..Len(ti.sample) : a < b => ti.sample[a].i < ti.sample[b].i
               /\ \A a \in 1..Len(ti.sample) :
                     /\ ti.sample[a].i \in 0..(Len(icall.tokens) - 1)
                     /\ icall.tokens[ti.sample[a].i + 1] = ti.sample[a].value
                     /\ TypeKey(Infer(converters, order, ti.sample[a].value).typ) = ti.name
                     /\ \A p \in 1..ti.sample[a].i : icall.tokens[p] # ti.sample[a].value

\* a token occurs twice and a later, different token of the same type is
\* sampled after it
C19_Witness ==
    /\ icall.op = "infer_series" /\ iret.kind = "Types"
    /\ \E p, q \in 1..Len(icall.tokens) : p < q /\ icall.tokens[p] = icall.tokens[q]
    /\ \E k \in 1..Len(iret.infos[1].types) :
          /\ Len(iret.infos[1].types[k].sample) = 2
          /\ iret.infos[1].types[k].sample[2].i = 2

\* C20: with n = 0 infer_series classifies every token and infer_matrix every
\* row, and each returns what it returns with n unset.
C20_ZeroLimitIsUnset ==
    (icall.n = Some(0) /\ iret.kind # "pending") =>
        /\ icall.op = "infer_series" =>
              /\ iret = InferSeriesResult(converters, order, icall.tokens, NoneArg,
                                          icall.size)
              /\ iret.kind # "raised" =>
                    iret.seen = {<<i, 0>> : i \in 0..(Len(icall.tokens) - 1)}
        /\ icall.op = "infer_matrix" =>
              /\ iret = InferMatrixResult(converters, order, icall.matrix, NoneArg,
                                          icall.size)
              /\ iret.kind = "list" =>
                    \A r \in 1..Len(icall.matrix) :
                       \A j \in 1..Len(icall.matrix[r]) : <<r - 1, j - 1>> \in iret.seen

\* n = 0 and every token of a series of two or more was classified
C20_Witness ==
    /\ icall.op = "infer_series" /\ icall.n = Some(0) /\ iret.kind = "Types"
    /\ Len(icall.tokens) >= 2
    /\ Cardinality(iret.seen) = Len(icall.tokens)

====
